---- MODULE Spec2Model ----
(***************************************************************************)
(* A model of the financial-transaction ETL pipeline: src/pipeline.py      *)
(* (run_pipeline), src/transform.py (clean_data, the dimension builders,   *)
(* transform_facts, transform_all), src/extract.py and src/load.py.        *)
(*                                                                         *)
(* A pandas DataFrame is a record [columns, rows]: the set of its column   *)
(* labels and the sequence of its rows, each row a function from the       *)
(* column labels to scalar values.  The row index labels of pandas are not *)
(* modelled: every assignment of the code is between objects that share    *)
(* one index, so it acts position by position.                             *)
(***************************************************************************)
EXTENDS Integers, Sequences, FiniteSets, TLC

VARIABLES
    pc,                 \* position of the run (of run_pipeline, or of a direct call)
    files,              \* contents of the three source CSV files
    source_data,        \* run_pipeline: what extract_all returned
    customers,          \* transform_dimensions: cleaned customers
    merchants,          \* transform_dimensions: cleaned merchants
    transactions,       \* transform_dimensions / transform_all: cleaned transactions
    dimensions,         \* transform_dimensions / transform_all: the dimensions dict
    fact_transactions,  \* transform_all: the fact table
    transformed_data,   \* run_pipeline: what transform_all returned
    loaded,             \* the tables written to the warehouse so far, in order
    table_index,        \* load_all: position of its loop in load_order
    outcome,            \* what run_pipeline returned: "True", "False", "None" before
    arg,                \* direct call of one function: its argument
    ret                 \* direct call of one function: the values returned so far

vars == <<pc, files, source_data, customers, merchants, transactions, dimensions,
          fact_transactions, transformed_data, loaded, table_index, outcome, arg, ret>>

pipeline_vars == <<files, source_data, customers, merchants, transactions, dimensions,
                   fact_transactions, transformed_data, loaded, table_index, outcome>>

-----------------------------------------------------------------------------
(* Scalars.  A text is a sequence of characters; a character is a blank,   *)
(* an opaque non-blank word, or the written form of a date in one format.  *)

Space == [kind |-> "space", w |-> "", day |-> 0, time |-> 0]

Word(w) == [kind |-> "word", w |-> w, day |-> 0, time |-> 0]

\* the date `day` January 2024, at hour `time`, written in format fmt
DateText(fmt, day, time) == [kind |-> fmt, w |-> "", day |-> day, time |-> time]

\* a Python str
Str(s) == [t |-> "str", s |-> s, n |-> 0]

\* a number
Num(n) == [t |-> "num", s |-> <<>>, n |-> n]

\* a pandas Timestamp of January 2024, n hours after the start of the month's day 0
Timestamp(day, time) == [t |-> "ts", s |-> <<>>, n |-> day * 24 + time]

\* the missing value (NaN / None / NaT)
NaN == [t |-> "nan", s |-> <<>>, n |-> 0]

\* Python None, for a variable that holds no table
None == [none |-> TRUE]

\* an exception raised by a call
Raised(exception) == [raised |-> exception]

IsRaised(x) == "raised" \in DOMAIN x

DataFrame(columns, rows) == [columns |-> columns, rows |-> rows]

len(df) == Len(df.rows)

-----------------------------------------------------------------------------
(* clean_data                                                              *)

RECURSIVE lstrip(_)
lstrip(s) == IF s # <<>> /\ Head(s) = Space THEN lstrip(Tail(s)) ELSE s

RECURSIVE rstrip(_)
rstrip(s) ==
    IF s # <<>> /\ s[Len(s)] = Space THEN rstrip(SubSeq(s, 1, Len(s) - 1)) ELSE s

\* str.strip
strip(s) == rstrip(lstrip(s))

\* one element of Series.str.strip(): an element that is no str gives NaN
str_strip(v) == IF v.t = "str" THEN Str(strip(v.s)) ELSE NaN

\* DataFrame.drop_duplicates(): a row equal to an earlier row is dropped
RECURSIVE drop_duplicates_rows(_)
drop_duplicates_rows(rows) ==
    IF rows = <<>> THEN <<>>
    ELSE LET front == SubSeq(rows, 1, Len(rows) - 1)
             last == rows[Len(rows)]
         IN  IF \E j \in 1..Len(front) : front[j] = last
             THEN drop_duplicates_rows(front)
             ELSE Append(drop_duplicates_rows(front), last)

drop_duplicates(df) == DataFrame(df.columns, drop_duplicates_rows(df.rows))

\* df.select_dtypes(include=['object']).columns: pandas gives a column the
\* object dtype when it holds a value that is not numeric, a str
string_columns(df) ==
    {c \in df.columns : \E i \in 1..len(df) : df.rows[i][c].t = "str"}

clean_data(df) ==
    LET d == drop_duplicates(df)
        cols == string_columns(d)
    IN  DataFrame(d.columns,
                  [i \in 1..len(d) |->
                      [c \in d.columns |->
                          IF c \in cols THEN str_strip(d.rows[i][c])
                                        ELSE d.rows[i][c]]])

-----------------------------------------------------------------------------
(* build_date_dimension                                                    *)

\* the formats pd.to_datetime reads: a date alone, ISO or with slashes, and a date
\* with a time of day
DateFormats == {"%Y-%m-%d", "%Y/%m/%d", "%Y-%m-%d %H:%M:%S"}

IsDateText(v) == v.t = "str" /\ Len(v.s) = 1 /\ v.s[1].kind \in DateFormats

\* the column df[column] as a sequence
Column(df, column) == [i \in 1..len(df) |-> df.rows[i][column]]

\* one element of pd.to_datetime: a missing value gives NaT
parse_datetime(v) == IF v.t = "nan" THEN NaN ELSE Timestamp(v.s[1].day, v.s[1].time)

\* pd.to_datetime(values): what the call can give.  A text that is no date raises.
\* pandas from 2.0 on infers one format from the first value and raises on a value
\* in another format; earlier versions parse every value by itself.
to_datetime(values) ==
    LET texts == {i \in 1..Len(values) : values[i].t # "nan"}
        formats == {values[i].s[1].kind : i \in texts}
        parsed == [i \in 1..Len(values) |-> parse_datetime(values[i])]
    IN  IF \E i \in texts : ~IsDateText(values[i]) THEN {Raised("ValueError")}
        ELSE IF Cardinality(formats) > 1
             THEN {Raised("ValueError"), [values |-> parsed]}
             ELSE {[values |-> parsed]}

\* Series.dt.strftime('%Y-%m-%d')
strftime(ts) ==
    IF ts.t = "nan" THEN NaN ELSE Str(<<DateText("%Y-%m-%d", ts.n \div 24, 0)>>)

\* Series.unique() followed by DatetimeIndex.sort_values(): the distinct values in
\* ascending order, NaT last
RECURSIVE sort_values(_)
sort_values(S) ==
    IF S = {} THEN <<>>
    ELSE LET first == CHOOSE x \in S :
                          /\ x.t = "nan" => S = {x}
                          /\ \A y \in S : y.t # "nan" => x.n <= y.n
         IN  <<first>> \o sort_values(S \ {first})

unique(values) == {values[i] : i \in 1..Len(values)}

\* Series.dt.dayofweek, Monday = 0: 1 January 2024 is a Monday
dayofweek(ts) == IF ts.t = "nan" THEN NaN ELSE Num(((ts.n \div 24) - 1) % 7)

day_name(ts) ==
    IF ts.t = "nan" THEN NaN
    ELSE Str(<<Word(<<"Monday", "Tuesday", "Wednesday", "Thursday", "Friday",
                      "Saturday", "Sunday">>[dayofweek(ts).n + 1])>>)

\* Series.isin([5, 6]).astype(int)
is_weekend(day_of_week) == IF day_of_week \in {Num(5), Num(6)} THEN Num(1) ELSE Num(0)

\* the body of build_date_dimension once pd.to_datetime has given `parsed`
date_dimension(parsed) ==
    LET dates == sort_values(unique(parsed))
        attr(ts, x) == IF ts.t = "nan" THEN NaN ELSE x
    IN  DataFrame({"date", "date_key", "year", "quarter", "month", "month_name",
                   "day", "day_of_week", "day_name", "is_weekend"},
                  [i \in 1..Len(dates) |->
                      [date |-> dates[i],
                       date_key |-> Num(i),
                       year |-> attr(dates[i], Num(2024)),
                       quarter |-> attr(dates[i], Num(1)),
                       month |-> attr(dates[i], Num(1)),
                       month_name |-> attr(dates[i], Str(<<Word("January")>>)),
                       day |-> attr(dates[i], Num(dates[i].n \div 24)),
                       day_of_week |-> dayofweek(dates[i]),
                       day_name |-> day_name(dates[i]),
                       is_weekend |-> is_weekend(dayofweek(dates[i]))]])

\* build_date_dimension that reads the first and the last date of the column, which
\* a column of no rows does not have
build_date_dimension_of_range(transactions_df) ==
    IF "transaction_date" \notin transactions_df.columns THEN {Raised("KeyError")}
    ELSE IF len(transactions_df) = 0 THEN {Raised("ValueError")}
    ELSE {IF IsRaised(p) THEN p ELSE date_dimension(p.values) :
              p \in to_datetime(Column(transactions_df, "transaction_date"))}

\* build_date_dimension(transactions_df): the tables, or the exception, it can give
build_date_dimension(transactions_df) ==
    IF "transaction_date" \notin transactions_df.columns THEN {Raised("KeyError")}
    ELSE {IF IsRaised(p) THEN p ELSE date_dimension(p.values) :
              p \in to_datetime(Column(transactions_df, "transaction_date"))}

-----------------------------------------------------------------------------
(* transform_dimensions and transform_facts                                *)

\* datetime.now().strftime(...): the moment of the run, an opaque text
now == Str(<<Word("now")>>)

\* df[column] = values
with_column(df, column, values) ==
    DataFrame(df.columns \cup {column},
              [i \in 1..len(df) |->
                  [c \in df.columns \cup {column} |->
                      IF c = column THEN values[i] ELSE df.rows[i][c]]])

\* range(n) in place of range(1, n + 1): keys from 0
surrogate_keys_from_zero(n) == [i \in 1..n |-> Num(i - 1)]

\* range(1, n + 1), the surrogate keys of a dimension of n rows
surrogate_keys(n) == [i \in 1..n |-> Num(i)]

\* the customer and the merchant dimension: the cleaned rows, keyed by position
keyed_dimension(cleaned, key_column) ==
    with_column(with_column(cleaned, key_column, surrogate_keys(len(cleaned))),
                "load_date", [i \in 1..len(cleaned) |-> now])

transaction_types ==
    <<[transaction_type |-> Str(<<Word("Purchase")>>),
       description |-> Str(<<Word("Standard purchase transaction")>>)],
      [transaction_type |-> Str(<<Word("Refund")>>),
       description |-> Str(<<Word("Refund transaction")>>)],
      [transaction_type |-> Str(<<Word("Payment")>>),
       description |-> Str(<<Word("Payment transaction")>>)],
      [transaction_type |-> Str(<<Word("Transfer")>>),
       description |-> Str(<<Word("Transfer transaction")>>)]>>

build_transaction_type_dimension ==
    with_column(DataFrame({"transaction_type", "description"}, transaction_types),
                "transaction_type_key", surrogate_keys(Len(transaction_types)))

\* a lookup in which, of the rows with one index value, the first one gives the entry
to_dict_keep_first(df, index, column) ==
    [k \in {df.rows[i][index] : i \in 1..len(df)} |->
        LET first == CHOOSE i \in 1..len(df) :
                         /\ df.rows[i][index] = k
                         /\ \A j \in 1..len(df) : df.rows[j][index] = k => i <= j
        IN  df.rows[first][column]]

\* df.set_index(index)[column].to_dict(): of the rows with one index value the
\* last one gives the entry
to_dict(df, index, column) ==
    [k \in {df.rows[i][index] : i \in 1..len(df)} |->
        LET last == CHOOSE i \in 1..len(df) :
                        /\ df.rows[i][index] = k
                        /\ \A j \in 1..len(df) : df.rows[j][index] = k => j <= i
        IN  df.rows[last][column]]

\* Series.map(lookup).fillna(0): a value that is no key of the dict gives 0
map_fillna_zero(v, lookup) == IF v \in DOMAIN lookup THEN lookup[v] ELSE Num(0)

\* one element of Series.map(lookup): a value that is no key of the dict gives NaN
map(v, lookup) == IF v \in DOMAIN lookup THEN lookup[v] ELSE NaN

fact_columns ==
    {"transaction_id", "date_key", "customer_key", "merchant_key",
     "transaction_type_key", "amount", "status", "payment_method",
     "transaction_time", "load_timestamp"}

\* the columns transform_facts reads of the transactions
transaction_columns_read ==
    {"customer_id", "merchant_id", "transaction_date", "transaction_type"}
    \cup (fact_columns \ {"date_key", "customer_key", "merchant_key",
                          "transaction_type_key", "load_timestamp"})

\* the columns transform_facts reads of each dimension
dimension_columns_read ==
    [dim_customers |-> {"customer_id", "customer_key"},
     dim_merchants |-> {"merchant_id", "merchant_key"},
     dim_date |-> {"date", "date_key"},
     dim_transaction_type |-> {"transaction_type", "transaction_type_key"}]

\* the fact table of transform_facts when every column it reads exists
fact_table(transactions_df, dims) ==
    LET customer_lookup == to_dict(dims.dim_customers, "customer_id", "customer_key")
        merchant_lookup == to_dict(dims.dim_merchants, "merchant_id", "merchant_key")
        dates == dims.dim_date
        date_lookup ==
            to_dict(with_column(dates, "date",
                                [i \in 1..len(dates) |-> strftime(dates.rows[i].date)]),
                    "date", "date_key")
        type_lookup == to_dict(dims.dim_transaction_type,
                               "transaction_type", "transaction_type_key")
        key(t, c) ==
            CASE c = "customer_key" -> map(t.customer_id, customer_lookup)
              [] c = "merchant_key" -> map(t.merchant_id, merchant_lookup)
              [] c = "date_key" -> map(t.transaction_date, date_lookup)
              [] c = "transaction_type_key" -> map(t.transaction_type, type_lookup)
              [] c = "load_timestamp" -> now
              [] OTHER -> t[c]
    IN  DataFrame(fact_columns,
                  [i \in 1..len(transactions_df) |->
                      [c \in fact_columns |-> key(transactions_df.rows[i], c)]])

\* transform_facts with an inner join in place of Series.map: a transaction with an
\* unresolved reference gets no fact row
transform_facts_inner_join(transactions_df, dims) ==
    LET fact == fact_table(transactions_df, dims)
    IN  DataFrame(fact.columns,
                  SelectSeq(fact.rows,
                            LAMBDA r : \A c \in {"customer_key", "merchant_key", "date_key",
                                                  "transaction_type_key"} : r[c] # NaN))

\* transform_facts: a column or a dimension it reads that does not exist raises
transform_facts(transactions_df, dims) ==
    IF \/ ~(transaction_columns_read \subseteq transactions_df.columns)
       \/ \E d \in DOMAIN dimension_columns_read :
              d \notin DOMAIN dims \/ ~(dimension_columns_read[d] \subseteq dims[d].columns)
    THEN Raised("KeyError")
    ELSE fact_table(transactions_df, dims)

-----------------------------------------------------------------------------
(* Inputs of the model.                                                    *)

\* most rows of a frame passed to one function called directly
MaxFrameRows == 3

\* all sequences over S of length at most n
SeqsUpTo(S, n) == UNION {[1..k -> S] : k \in 0..n}

\* the frames of tests/test_pipeline.py: a numeric id and a value column
TestRows ==
    {[id |-> i, value |-> v] :
        i \in {Num(1), Num(2)},
        v \in {Str(<<Word("a")>>), Str(<<Space, Word("a")>>), Str(<<Word("b")>>),
               Num(1), NaN}}

TestFrames == {DataFrame({"id", "value"}, r) : r \in SeqsUpTo(TestRows, MaxFrameRows)}

\* the days of January 2024 the model's dates are drawn from: a Friday, a Saturday
Days == {5, 6}

\* the hours of the day the model's times are drawn from
Hours == {9, 17}

DateValues ==
    {Str(<<DateText("%Y-%m-%d", d, 0)>>) : d \in Days}
    \cup {Str(<<DateText("%Y/%m/%d", d, 0)>>) : d \in Days}
    \cup {Str(<<DateText("%Y-%m-%d %H:%M:%S", d, h)>>) : d \in Days, h \in Hours}
    \cup {Str(<<Word("not-a-date")>>), NaN}

\* transactions frames as tests/test_pipeline.py passes them to build_date_dimension
DateFrames ==
    {DataFrame({"transaction_date"}, r) :
        r \in SeqsUpTo({[transaction_date |-> v] : v \in DateValues}, MaxFrameRows)}

\* most rows of the three source files together
MaxRows == 3

Text(w) == Str(<<Word(w)>>)

\* a customers.csv row
CustomerRow(id, name) ==
    [customer_id |-> id, customer_name |-> name, email |-> Text("a@example.com"),
     phone |-> Text("555-0100"), address |-> Text("1 Main St"), city |-> Text("Springfield"),
     state |-> Text("IL"), zip_code |-> Num(62701),
     registration_date |-> Str(<<DateText("%Y-%m-%d", 1, 0)>>),
     customer_segment |-> Text("Standard")]

\* customers with text ids: one id under two names and with a trailing blank, and a
\* second id
CustomerRows ==
    {CustomerRow(Text("C1"), Text("Alice")), CustomerRow(Text("C1"), Text("Bob")),
     CustomerRow(Str(<<Word("C1"), Space>>), Text("Alice")),
     CustomerRow(Text("C2"), Text("Alice"))}

\* a merchants.csv row
MerchantRow(id) ==
    [merchant_id |-> id, merchant_name |-> Text("Acme"), category |-> Text("Retail"),
     city |-> Text("Springfield"), state |-> Text("IL")]

\* merchants with numeric ids, as generate_sample_data.py writes them
MerchantRows == {MerchantRow(Num(1)), MerchantRow(Num(2))}

\* a transactions.csv row
TransactionRow(id, date, customer, merchant, type) ==
    [transaction_id |-> id, transaction_date |-> date,
     transaction_time |-> Text("10:00:00"), customer_id |-> customer,
     merchant_id |-> merchant, amount |-> Num(25), transaction_type |-> type,
     status |-> Text("Completed"), payment_method |-> Text("Cash")]

ReferenceTransaction ==
    TransactionRow(Num(1), Str(<<DateText("%Y-%m-%d", 6, 0)>>), Text("C1"), Num(1),
                   Text("Refund"))

\* the reference transaction and the rows that differ from it in one column
TransactionRows ==
    {ReferenceTransaction}
    \cup {[ReferenceTransaction EXCEPT !.transaction_id = Num(2)]}
    \cup {[ReferenceTransaction EXCEPT !.transaction_date = d] :
             d \in {Str(<<DateText("%Y/%m/%d", 5, 0)>>), Text("not-a-date")}}
    \cup {[ReferenceTransaction EXCEPT !.customer_id = c] :
             c \in {Text("C2"), Str(<<Space, Word("C1")>>)}}
    \cup {[ReferenceTransaction EXCEPT !.merchant_id = Num(2)]}
    \cup {[ReferenceTransaction EXCEPT !.transaction_type = Text("Chargeback")]}

\* the three source files, MaxRows rows in all at most
SourceFiles(customer_rows, merchant_rows, transaction_rows) ==
    UNION {UNION {UNION {
        {[customers |-> DataFrame(DOMAIN CustomerRow(NaN, NaN), c),
          merchants |-> DataFrame(DOMAIN MerchantRow(NaN), m),
          transactions |-> DataFrame(DOMAIN ReferenceTransaction, t)] :
            c \in [1..nc -> customer_rows], m \in [1..nm -> merchant_rows],
            t \in [1..nt -> transaction_rows]} :
        nt \in 0..(MaxRows - nc - nm)} : nm \in 0..(MaxRows - nc)} : nc \in 0..MaxRows}

\* df without one of its columns
without_column(df, column) ==
    DataFrame(df.columns \ {column},
              [i \in 1..len(df) |-> [c \in df.columns \ {column} |-> df.rows[i][c]]])

\* the source files with at most one column of one file missing
SourceFilesMissingColumn(sources) ==
    sources
    \cup {[f EXCEPT ![name] = without_column(f[name], column)] :
             f \in sources, name \in {"customers", "merchants", "transactions"},
             column \in DOMAIN CustomerRow(NaN, NaN) \cup DOMAIN MerchantRow(NaN)
                          \cup DOMAIN ReferenceTransaction}

-----------------------------------------------------------------------------
(* clean_data called directly, and called again on its own result.         *)

\* no pipeline runs while one function is called directly
NoRun ==
    /\ files = None /\ source_data = None
    /\ customers = None /\ merchants = None /\ transactions = None
    /\ dimensions = <<>> /\ fact_transactions = None /\ transformed_data = None
    /\ loaded = <<>> /\ table_index = 1 /\ outcome = "None"

InitClean ==
    /\ pc = "clean_data"
    /\ arg \in TestFrames
    /\ ret = <<>>
    /\ NoRun

CallCleanData ==
    /\ pc = "clean_data"
    /\ ret' = <<clean_data(arg)>>
    /\ pc' = "clean_data_again"
    /\ UNCHANGED <<arg, pipeline_vars>>

CallCleanDataAgain ==
    /\ pc = "clean_data_again"
    /\ ret' = Append(ret, clean_data(ret[1]))
    /\ pc' = "returned"
    /\ UNCHANGED <<arg, pipeline_vars>>

NextClean == CallCleanData \/ CallCleanDataAgain

SpecClean == InitClean /\ [][NextClean]_vars

-----------------------------------------------------------------------------
(* build_date_dimension called directly.                                   *)

InitDate ==
    /\ pc = "build_date_dimension"
    /\ arg \in DateFrames
    /\ ret = <<>>
    /\ NoRun

CallBuildDateDimension ==
    /\ pc = "build_date_dimension"
    /\ \E dim_date \in build_date_dimension(arg) : ret' = <<dim_date>>
    /\ pc' = "returned"
    /\ UNCHANGED <<arg, pipeline_vars>>

NextDate == CallBuildDateDimension

SpecDate == InitDate /\ [][NextDate]_vars

-----------------------------------------------------------------------------
(* run_pipeline: extract_all, transform_all (transform_dimensions, then    *)
(* transform_facts), load_all, run_data_quality_checks.  An exception      *)
(* raised by a step ends the run in the except clause, which returns False.*)

load_order ==
    <<"dim_customers", "dim_merchants", "dim_date", "dim_transaction_type",
      "fact_transactions">>

InitRun(inputs) ==
    /\ pc = "extract_all"
    /\ files \in inputs
    /\ source_data = None
    /\ customers = None /\ merchants = None /\ transactions = None
    /\ dimensions = <<>> /\ fact_transactions = None /\ transformed_data = None
    /\ loaded = <<>> /\ table_index = 1 /\ outcome = "None"
    /\ arg = None /\ ret = <<>>

Init == InitRun(SourceFiles(CustomerRows, MerchantRows, TransactionRows))

\* the exception is logged and not raised again: the run goes on to load_all
ExceptAndContinue(unchanged) ==
    /\ pc' = "load_all"
    /\ outcome' = outcome
    /\ UNCHANGED unchanged

\* except Exception: ... return False
Except(unchanged) ==
    /\ pc' = "failed"
    /\ outcome' = "False"
    /\ UNCHANGED unchanged

\* extract_all raises when a source file does not exist or cannot be read
ExtractAll ==
    /\ pc = "extract_all"
    /\ \E found \in BOOLEAN :
          IF found
          THEN /\ source_data' = files
               /\ pc' = "clean_customers"
               /\ UNCHANGED outcome
          ELSE Except(<<source_data>>)
    /\ UNCHANGED <<files, customers, merchants, transactions, dimensions,
                   fact_transactions, transformed_data, loaded, table_index, arg, ret>>

CleanCustomers ==
    /\ pc = "clean_customers"
    /\ customers' = clean_data(source_data.customers)
    /\ pc' = "clean_merchants"
    /\ UNCHANGED <<files, source_data, merchants, transactions, dimensions,
                   fact_transactions, transformed_data, loaded, table_index, outcome,
                   arg, ret>>

CleanMerchants ==
    /\ pc = "clean_merchants"
    /\ merchants' = clean_data(source_data.merchants)
    /\ pc' = "clean_transactions"
    /\ UNCHANGED <<files, source_data, customers, transactions, dimensions,
                   fact_transactions, transformed_data, loaded, table_index, outcome,
                   arg, ret>>

CleanTransactions ==
    /\ pc = "clean_transactions"
    /\ transactions' = clean_data(source_data.transactions)
    /\ pc' = "dim_customers"
    /\ UNCHANGED <<files, source_data, customers, merchants, dimensions,
                   fact_transactions, transformed_data, loaded, table_index, outcome,
                   arg, ret>>

\* dimensions[name] = table, and fact resolution follows the date dimension at once
BuildThenFacts(name, table, next_pc) ==
    /\ dimensions' = dimensions @@ (name :> table)
    /\ pc' = IF name = "dim_date" THEN "transform_facts" ELSE next_pc
    /\ UNCHANGED <<files, source_data, customers, merchants, transactions,
                   fact_transactions, transformed_data, loaded, table_index, outcome,
                   arg, ret>>

\* dimensions[name] = table
Build(name, table, next_pc) ==
    /\ dimensions' = dimensions @@ (name :> table)
    /\ pc' = next_pc
    /\ UNCHANGED <<files, source_data, customers, merchants, transactions,
                   fact_transactions, transformed_data, loaded, table_index, outcome,
                   arg, ret>>

BuildCustomerDimension ==
    /\ pc = "dim_customers"
    /\ Build("dim_customers", keyed_dimension(customers, "customer_key"),
             "dim_merchants")

BuildMerchantDimension ==
    /\ pc = "dim_merchants"
    /\ Build("dim_merchants", keyed_dimension(merchants, "merchant_key"), "dim_date")

BuildDateDimension ==
    /\ pc = "dim_date"
    /\ \E dim_date \in build_date_dimension(transactions) :
          IF IsRaised(dim_date)
          THEN Except(<<files, source_data, customers, merchants, transactions,
                        dimensions, fact_transactions, transformed_data, loaded,
                        table_index, arg, ret>>)
          ELSE Build("dim_date", dim_date, "dim_transaction_type")

BuildTransactionTypeDimension ==
    /\ pc = "dim_transaction_type"
    /\ Build("dim_transaction_type", build_transaction_type_dimension,
             "transform_facts")

TransformFacts ==
    /\ pc = "transform_facts"
    /\ LET fact == transform_facts(transactions, dimensions)
       IN  IF IsRaised(fact)
           THEN Except(<<fact_transactions>>)
           ELSE /\ fact_transactions' = fact
                /\ pc' = "transform_all_return"
                /\ UNCHANGED outcome
    /\ UNCHANGED <<files, source_data, customers, merchants, transactions, dimensions,
                   transformed_data, loaded, table_index, arg, ret>>

\* result = {**dimensions, 'fact_transactions': fact_transactions}; return result
TransformAllReturn ==
    /\ pc = "transform_all_return"
    /\ transformed_data' = dimensions @@ ("fact_transactions" :> fact_transactions)
    /\ customers' = None /\ merchants' = None /\ transactions' = None
    /\ dimensions' = <<>> /\ fact_transactions' = None
    /\ pc' = "load_all"
    /\ UNCHANGED <<files, source_data, loaded, table_index, outcome, arg, ret>>

\* load_all up to its loop: create_database_engine and create_tables, which raises
\* when the warehouse cannot be opened or the SQL script fails
LoadAll ==
    /\ pc = "load_all"
    /\ \E created \in BOOLEAN :
          IF created
          THEN /\ table_index' = 1
               /\ pc' = "load_table"
               /\ UNCHANGED outcome
          ELSE Except(<<table_index>>)
    /\ UNCHANGED <<files, source_data, customers, merchants, transactions, dimensions,
                   fact_transactions, transformed_data, loaded, arg, ret>>

\* one turn of load_all's loop with a load_table whose except clause does not raise
\* again: after a failed write the loop goes on to the next table
LoadTableContinue ==
    /\ pc = "load_table"
    /\ table_index <= Len(load_order)
    /\ \E written \in BOOLEAN :
          loaded' = IF written /\ load_order[table_index] \in DOMAIN transformed_data
                    THEN Append(loaded, load_order[table_index])
                    ELSE loaded
    /\ table_index' = table_index + 1
    /\ UNCHANGED <<pc, outcome, files, source_data, customers, merchants, transactions,
                   dimensions, fact_transactions, transformed_data, arg, ret>>

\* one turn of load_all's loop: load_table writes the table or raises
LoadTable ==
    /\ pc = "load_table"
    /\ table_index <= Len(load_order)
    /\ IF load_order[table_index] \in DOMAIN transformed_data
       THEN \E written \in BOOLEAN :
               IF written
               THEN /\ loaded' = Append(loaded, load_order[table_index])
                    /\ table_index' = table_index + 1
                    /\ UNCHANGED <<pc, outcome>>
               ELSE Except(<<loaded, table_index>>)
       ELSE /\ table_index' = table_index + 1
            /\ UNCHANGED <<pc, outcome, loaded>>
    /\ UNCHANGED <<files, source_data, customers, merchants, transactions, dimensions,
                   fact_transactions, transformed_data, arg, ret>>

LoadAllReturn ==
    /\ pc = "load_table"
    /\ table_index > Len(load_order)
    /\ pc' = "run_data_quality_checks"
    /\ UNCHANGED <<files, source_data, customers, merchants, transactions, dimensions,
                   fact_transactions, transformed_data, loaded, table_index, outcome,
                   arg, ret>>

\* run_data_quality_checks reads the warehouse and raises when that fails; after it
\* run_pipeline returns True
RunDataQualityChecks ==
    /\ pc = "run_data_quality_checks"
    /\ \E checked \in BOOLEAN :
          IF checked
          THEN /\ pc' = "done"
               /\ outcome' = "True"
          ELSE Except(<<>>)
    /\ UNCHANGED <<files, source_data, customers, merchants, transactions, dimensions,
                   fact_transactions, transformed_data, loaded, table_index, arg, ret>>

Next ==
    \/ ExtractAll
    \/ CleanCustomers \/ CleanMerchants \/ CleanTransactions
    \/ BuildCustomerDimension \/ BuildMerchantDimension
    \/ BuildDateDimension \/ BuildTransactionTypeDimension
    \/ TransformFacts \/ TransformAllReturn
    \/ LoadAll \/ LoadTable \/ LoadAllReturn
    \/ RunDataQualityChecks

Spec == Init /\ [][Next]_vars

\* runs on source files that may miss a column
InitSchema ==
    InitRun(SourceFilesMissingColumn(
                SourceFiles({CustomerRow(Text("C1"), Text("Alice"))}, {MerchantRow(Num(1))},
                            {ReferenceTransaction,
                             [ReferenceTransaction EXCEPT
                                  !.transaction_date = Text("not-a-date")]})))

SpecSchema == InitSchema /\ [][Next]_vars

-----------------------------------------------------------------------------
(* Properties of clean_data.                                               *)

\* the positions of the rows that equal no earlier row
FirstOccurrences(rows) ==
    {i \in 1..Len(rows) : \A j \in 1..(i - 1) : rows[j] # rows[i]}

\* a str trimmed, any other value as it is
Trimmed(v) == IF v.t = "str" THEN Str(strip(v.s)) ELSE v

HasDuplicateRows(df) ==
    \E i, j \in 1..len(df) : i < j /\ df.rows[i] = df.rows[j]

\* C2: cleaning is idempotent: clean_data(clean_data(X)) = clean_data(X) for every
\* record set X, rows that differ only by leading or trailing whitespace included.
C2_CleanIdempotent == pc = "returned" => ret[2] = ret[1]

\* C3: the record set clean_data returns has no two fully identical rows, and it
\* has at most as many rows as its input.
C3_CleanOutputGuarantee ==
    pc \in {"clean_data_again", "returned"} =>
        /\ ~HasDuplicateRows(ret[1])
        /\ len(ret[1]) <= len(arg)

\* C4: clean_data keeps the first occurrence of each row in the original order, and
\* every surviving value is the trimmed input value when that is a string and
\* exactly the input value when it is not.
C4_CleanValueEffect ==
    pc \in {"clean_data_again", "returned"} =>
        LET K == FirstOccurrences(arg.rows)
        IN  /\ len(ret[1]) = Cardinality(K)
            /\ \A i \in K :
                   LET m == Cardinality({k \in K : k <= i})
                   IN  \A c \in arg.columns :
                           ret[1].rows[m][c] = Trimmed(arg.rows[i][c])

-----------------------------------------------------------------------------
(* Properties of build_date_dimension.                                     *)

\* the calendar dates (days of January 2024) written in the transaction set
CalendarDates(transactions_df) ==
    {v.s[1].day : v \in {x \in unique(Column(transactions_df, "transaction_date")) :
                            IsDateText(x)}}

\* C6: build_date_dimension returns exactly one row per distinct calendar date of
\* the transaction set and no row for any other date, with date_key 1..N in strictly
\* ascending chronological order, and is_weekend set exactly when day_of_week is 5
\* or 6.
C6_DateDimension ==
    (pc = "returned" /\ ~IsRaised(ret[1])) =>
        LET dim_date == ret[1]
            N == len(dim_date)
        IN  /\ \A d \in CalendarDates(arg) :
                   Cardinality({i \in 1..N : /\ dim_date.rows[i].date.t = "ts"
                                             /\ dim_date.rows[i].date.n \div 24 = d}) = 1
            /\ \A i \in 1..N :
                   /\ dim_date.rows[i].date.t = "ts"
                   /\ dim_date.rows[i].date.n \div 24 \in CalendarDates(arg)
                   /\ dim_date.rows[i].date_key = Num(i)
                   /\ dim_date.rows[i].is_weekend = Num(1)
                          <=> dim_date.rows[i].day_of_week \in {Num(5), Num(6)}
            /\ \A i, j \in 1..N :
                   i < j => dim_date.rows[i].date.n < dim_date.rows[j].date.n

-----------------------------------------------------------------------------
(* Properties of transform_all and run_pipeline.  After TransformFacts and *)
(* before transform_all returns, the cleaned transactions, the dimensions  *)
(* and the fact table are all in scope.                                    *)

FactsBuilt == pc = "transform_all_return"

\* some row of the dimension carries the natural id
Occurs(dim, id_column, id) == \E r \in 1..len(dim) : dim.rows[r][id_column] = id

\* the key is not null and is the key of a dimension row that carries the natural id
ResolvedTo(dim, id_column, key_column, id, key) ==
    /\ key # NaN
    /\ \E r \in 1..len(dim) : dim.rows[r][id_column] = id /\ dim.rows[r][key_column] = key

\* C1: fact referential integrity: for every fact row and each of its four
\* references, if the transaction's natural id (customer_id, merchant_id, the date
\* of transaction_date, transaction_type) occurs in the dimension, the resolved key
\* is not null and is the surrogate key of a dimension row carrying that id.
C1_FactReferentialIntegrity ==
    FactsBuilt =>
        \A i \in 1..len(transactions) :
            LET t == transactions.rows[i]
                f == fact_transactions.rows[i]
                holds(dim, id_column, key_column, id) ==
                    Occurs(dimensions[dim], id_column, id)
                        => ResolvedTo(dimensions[dim], id_column, key_column, id,
                                      f[key_column])
            IN  /\ holds("dim_customers", "customer_id", "customer_key", t.customer_id)
                /\ holds("dim_merchants", "merchant_id", "merchant_key", t.merchant_id)
                /\ holds("dim_date", "date", "date_key",
                         parse_datetime(t.transaction_date))
                /\ holds("dim_transaction_type", "transaction_type",
                         "transaction_type_key", t.transaction_type)

\* the dimension has the cleaned rows, in their order, row i with key i
KeyedByPosition(dim, cleaned, key_column) ==
    /\ len(dim) = len(cleaned)
    /\ {dim.rows[i][key_column] : i \in 1..len(dim)} = {Num(k) : k \in 1..len(cleaned)}
    /\ \A i \in 1..len(dim) :
           /\ dim.rows[i][key_column] = Num(i)
           /\ \A c \in cleaned.columns : dim.rows[i][c] = cleaned.rows[i][c]

\* C5: the customer dimension of a cleaned customer set of N rows has exactly N rows
\* with the keys 1..N, key i on the i-th cleaned row; the merchant dimension
\* likewise, its keys starting at 1 whatever the customer keys are.
C5_SurrogateKeys ==
    /\ "dim_customers" \in DOMAIN dimensions
           => KeyedByPosition(dimensions.dim_customers, customers, "customer_key")
    /\ "dim_merchants" \in DOMAIN dimensions
           => KeyedByPosition(dimensions.dim_merchants, merchants, "merchant_key")

\* C5 witness: both dimensions are built, of different sizes
C5_Witness ==
    /\ {"dim_customers", "dim_merchants"} \subseteq DOMAIN dimensions
    /\ len(dimensions.dim_customers) = 2
    /\ len(dimensions.dim_merchants) = 1

\* the steps of transform_all
TransformSteps ==
    {"clean_customers", "clean_merchants", "clean_transactions", "dim_customers",
     "dim_merchants", "dim_date", "dim_transaction_type", "transform_facts",
     "transform_all_return"}

NullWhenAbsent(dim, id_column, id, key) ==
    ~Occurs(dim, id_column, id) => key = NaN

\* C7: a reference to a customer, merchant, date or transaction type that is absent
\* from its dimension leaves the transaction's fact row in place with that key null
\* (never 0, never another row's key), and it never makes transform_all fail: the
\* transform raises only where pd.to_datetime rejects the dates.
C7_NullPropagation ==
    /\ [](FactsBuilt =>
            /\ len(fact_transactions) = len(transactions)
            /\ \A i \in 1..len(transactions) :
                   LET t == transactions.rows[i]
                       f == fact_transactions.rows[i]
                   IN  /\ f.transaction_id = t.transaction_id
                       /\ NullWhenAbsent(dimensions.dim_customers, "customer_id",
                                         t.customer_id, f.customer_key)
                       /\ NullWhenAbsent(dimensions.dim_merchants, "merchant_id",
                                         t.merchant_id, f.merchant_key)
                       /\ NullWhenAbsent(dimensions.dim_date, "date",
                                         parse_datetime(t.transaction_date), f.date_key)
                       /\ NullWhenAbsent(dimensions.dim_transaction_type,
                                         "transaction_type", t.transaction_type,
                                         f.transaction_type_key))
    /\ [][(pc \in TransformSteps /\ pc' = "failed")
             => /\ pc = "dim_date"
                /\ Raised("ValueError") \in build_date_dimension(transactions)]_vars

\* C7 witness: transform_all has returned a fact table in which the customer, the
\* merchant and the type of a transaction are unresolved
C7_Witness ==
    /\ pc = "load_all"
    /\ \E i \in 1..len(transformed_data.fact_transactions) :
           LET f == transformed_data.fact_transactions.rows[i]
           IN  f.customer_key = NaN /\ f.merchant_key = NaN /\ f.transaction_type_key = NaN

\* C8: the fact table has exactly one row per cleaned transaction, in the same
\* order: the i-th fact row carries the transaction_id (and the other columns taken
\* over) of the i-th cleaned transaction, whatever the lookups return.
C8_RowConservation ==
    FactsBuilt =>
        /\ len(fact_transactions) = len(transactions)
        /\ \A i \in 1..len(transactions) :
               \A c \in {"transaction_id", "amount", "status", "payment_method",
                         "transaction_time"} :
                   fact_transactions.rows[i][c] = transactions.rows[i][c]

\* C8 witness: of three transactions read, two alike, the two cleaned ones have
\* different ids and their fact rows hold an unresolved reference
C8_Witness ==
    /\ FactsBuilt
    /\ len(source_data.transactions) = 3
    /\ len(fact_transactions) = 2
    /\ fact_transactions.rows[1].transaction_id # fact_transactions.rows[2].transaction_id
    /\ \E c \in fact_columns : fact_transactions.rows[2][c] = NaN

FiveTables == {load_order[i] : i \in 1..Len(load_order)}

\* C9: transform_all returns all five tables or none; when a step of it fails,
\* run_pipeline never invokes load_all and returns False; load_all is invoked only
\* after transform_all has returned the complete result.
C9_AllOrNothing ==
    /\ [](/\ transformed_data # None => DOMAIN transformed_data = FiveTables
          /\ transformed_data = None
                => /\ loaded = <<>>
                   /\ pc \notin {"load_all", "load_table", "run_data_quality_checks",
                                 "done"}
          /\ pc = "failed" => outcome = "False"
          /\ outcome = "True" => pc = "done")
    /\ [][(pc \in TransformSteps /\ pc' = "failed")
             => transformed_data' = None /\ loaded' = <<>> /\ outcome' = "False"]_vars
    /\ [][(pc # "load_all" /\ pc' = "load_all")
             => pc = "transform_all_return" /\ DOMAIN transformed_data' = FiveTables]_vars

\* C9 witness: fact resolution has failed with all four dimensions built, and
\* nothing was returned or loaded
C9_Witness ==
    /\ pc = "failed"
    /\ DOMAIN dimensions = FiveTables \ {"fact_transactions"}
    /\ transformed_data = None
    /\ loaded = <<>>
    /\ outcome = "False"

\* the fixed inbound column sets
InboundColumns ==
    [customers |-> DOMAIN CustomerRow(NaN, NaN),
     merchants |-> DOMAIN MerchantRow(NaN),
     transactions |-> DOMAIN ReferenceTransaction]

\* C10: when a column of a fixed inbound column set is missing from its raw record
\* set, transform_all fails and emits no tables: it never builds the fact table and
\* never returns.
C10_MissingColumnAborts ==
    (\E name \in DOMAIN InboundColumns : files[name].columns # InboundColumns[name])
        => /\ transformed_data = None
           /\ pc # "transform_all_return"

-----------------------------------------------------------------------------
(* The order of the steps of transform_all.                                *)

DimensionTables == FiveTables \ {"fact_transactions"}

\* all four dimension tables are in the dict, each with all of its rows
DimensionsComplete ==
    /\ DOMAIN dimensions = DimensionTables
    /\ len(dimensions.dim_customers) = len(customers)
    /\ len(dimensions.dim_merchants) = len(merchants)
    /\ dimensions.dim_date \in build_date_dimension(transactions)
    /\ len(dimensions.dim_transaction_type) = Len(transaction_types)

\* the keys of the fact rows are the entries of the lookups of the tables in dims
ResolvedFrom(fact, transactions_df, dims) ==
    LET dates == dims.dim_date
        date_text == with_column(dates, "date",
                                 [i \in 1..len(dates) |-> strftime(dates.rows[i].date)])
    IN  /\ len(fact) = len(transactions_df)
        /\ \A i \in 1..len(fact) :
               LET t == transactions_df.rows[i]
                   f == fact.rows[i]
               IN  /\ f.customer_key
                          = map(t.customer_id,
                                to_dict(dims.dim_customers, "customer_id", "customer_key"))
                   /\ f.merchant_key
                          = map(t.merchant_id,
                                to_dict(dims.dim_merchants, "merchant_id", "merchant_key"))
                   /\ f.date_key = map(t.transaction_date,
                                       to_dict(date_text, "date", "date_key"))
                   /\ f.transaction_type_key
                          = map(t.transaction_type,
                                to_dict(dims.dim_transaction_type, "transaction_type",
                                        "transaction_type_key"))

\* C11: join barrier: in every run of transform_all the resolution of the first
\* fact row starts only when all four dimension tables are completely built, no
\* dimension changes from then on, and the keys of the fact rows are the entries of
\* the lookups taken from those completed tables.
C11_JoinBarrier ==
    /\ [](pc \in {"transform_facts", "transform_all_return"} => DimensionsComplete)
    /\ [](FactsBuilt => ResolvedFrom(fact_transactions, transactions, dimensions))
    /\ [][pc = "transform_facts" => dimensions' = dimensions]_vars
    /\ [][(fact_transactions = None /\ fact_transactions' # None)
             => pc = "transform_facts" /\ DimensionsComplete]_vars

\* C11 witness: facts are resolved against a customer dimension of two rows, and a
\* fact row holds the key of the second
C11_Witness ==
    /\ pc = "transform_all_return"
    /\ DimensionsComplete
    /\ len(dimensions.dim_customers) = 2
    /\ len(fact_transactions) = 1
    /\ fact_transactions.rows[1].customer_key = Num(2)
    /\ fact_transactions.rows[1].transaction_type_key = Num(2)

-----------------------------------------------------------------------------
(* The order of the writes of load_all.                                    *)

\* the tables written so far
Written == {loaded[i] : i \in 1..Len(loaded)}

\* C12: the load order respects the referential dependency: in every run of
\* load_all fact_transactions is written only after dim_customers, dim_merchants,
\* dim_date and dim_transaction_type have all been written; once the load of a
\* table has failed no later table is written, so the tables written are always a
\* prefix of the fixed load order.
C12_LoadOrder ==
    /\ [](/\ Len(loaded) <= Len(load_order)
          /\ loaded = SubSeq(<<"dim_customers", "dim_merchants", "dim_date",
                               "dim_transaction_type", "fact_transactions">>,
                             1, Len(loaded))
          /\ "fact_transactions" \in Written => DimensionTables \subseteq Written)
    /\ [][loaded' # loaded
             => /\ pc = "load_table" /\ pc' = "load_table"
                /\ loaded' = Append(loaded, load_order[Len(loaded) + 1])]_vars
    /\ [][pc = "failed" => loaded' = loaded]_vars

\* C12 witness: the write of dim_date has failed after two tables were written, and
\* the run has ended with only those two written
C12_Witness ==
    /\ pc = "failed"
    /\ table_index = 3
    /\ loaded = <<"dim_customers", "dim_merchants">>

-----------------------------------------------------------------------------
(* Source files of no rows.                                                *)

SomeSourceEmpty ==
    \E name \in {"customers", "merchants", "transactions"} : len(source_data[name]) = 0

\* some transaction date is a text that is no date, or the dates are written in
\* more than one format
DatesRejected(df) ==
    LET texts == {v \in {df.rows[i].transaction_date : i \in 1..len(df)} : v.t = "str"}
    IN  \/ \E v \in texts : ~IsDateText(v)
        \/ Cardinality({v.s[1].kind : v \in texts}) > 1

\* the four fixed rows, keys 1..4, in the order Purchase, Refund, Payment, Transfer
FixedTransactionTypes(dim) ==
    /\ len(dim) = 4
    /\ \A i \in 1..4 :
           /\ dim.rows[i].transaction_type
                  = Text(<<"Purchase", "Refund", "Payment", "Transfer">>[i])
           /\ dim.rows[i].transaction_type_key = Num(i)

\* C13: degenerate input is valid: a source of zero rows never makes transform_all
\* fail (with zero transactions it never fails; with zero customers or merchants it
\* fails only where pd.to_datetime rejects the dates of the transactions there are);
\* with zero transactions the date dimension and the fact table have zero rows, with
\* zero customers (merchants) that dimension has zero rows, and the transaction-type
\* dimension still has its fixed 4 rows, keys 1..4, in the order Purchase, Refund,
\* Payment, Transfer.
C13_DegenerateInput ==
    /\ []((FactsBuilt /\ SomeSourceEmpty) =>
            /\ len(source_data.transactions) = 0
                   => len(dimensions.dim_date) = 0 /\ len(fact_transactions) = 0
            /\ len(source_data.customers) = 0 => len(dimensions.dim_customers) = 0
            /\ len(source_data.merchants) = 0 => len(dimensions.dim_merchants) = 0
            /\ FixedTransactionTypes(dimensions.dim_transaction_type))
    /\ [][(pc \in TransformSteps /\ pc' = "failed" /\ SomeSourceEmpty)
             => /\ pc = "dim_date"
                /\ len(source_data.transactions) > 0
                /\ DatesRejected(transactions)]_vars

\* C13 witness: transform_all has built its tables of no transactions and no
\* customers: the merchant dimension alone has rows, besides the four fixed types
C13_Witness ==
    /\ FactsBuilt
    /\ len(source_data.transactions) = 0
    /\ len(source_data.customers) = 0
    /\ len(dimensions.dim_merchants) = 2
    /\ len(dimensions.dim_date) = 0
    /\ len(fact_transactions) = 0
    /\ len(dimensions.dim_transaction_type) = 4

-----------------------------------------------------------------------------
(* check_null_values, called directly as tests/test_pipeline.py calls it.  *)

\* config.MAX_NULL_PERCENTAGE
MAX_NULL_PERCENTAGE == 5

\* most rows of a frame passed to check_null_values
MaxCheckRows == 21

\* one element of df.isnull()
isnull(v) == v.t = "nan"

\* df.isnull().sum()
null_counts(df) ==
    [c \in df.columns |-> Cardinality({i \in 1..len(df) : isnull(df.rows[i][c])})]

\* (count / rows) * 100, the quotient kept as the fraction num / den; 0 / 0 is NaN
Percentage(count, rows) == [num |-> count * 100, den |-> rows]

\* (null_counts / len(df)) * 100
null_percentages(df) == [c \in df.columns |-> Percentage(null_counts(df)[c], len(df))]

\* pct >= limit
greater_or_equal(pct, limit) == pct.den > 0 /\ pct.num >= limit * pct.den

\* pct > limit; a comparison with NaN is False
greater(pct, limit) == pct.den > 0 /\ pct.num > limit * pct.den

\* check_null_values(df, table_name): the dict issues
check_null_values(df) ==
    LET pcts == null_percentages(df)
        flagged == {c \in df.columns : greater(pcts[c], MAX_NULL_PERCENTAGE)}
    IN  [c \in flagged |-> pcts[c]]

\* a frame of two numeric columns with nulls: col1 null in its first k1 rows, col2
\* in its last k2 rows
NullFrame(rows, k1, k2) ==
    DataFrame({"col1", "col2"},
              [i \in 1..rows |->
                  [col1 |-> IF i <= k1 THEN NaN ELSE Num(i),
                   col2 |-> IF i > rows - k2 THEN NaN ELSE Num(i)]])

\* the smaller of two numbers
min(a, b) == IF a < b THEN a ELSE b

\* frames of up to MaxCheckRows rows: col1 with no, one or two nulls, col2 with any
\* number of them
NullFrames ==
    UNION {{NullFrame(rows, k1, k2) : k1 \in 0..min(rows, 2), k2 \in 0..rows} :
              rows \in 0..MaxCheckRows}

InitNull ==
    /\ pc = "check_null_values"
    /\ arg \in NullFrames
    /\ ret = <<>>
    /\ NoRun

CallCheckNullValues ==
    /\ pc = "check_null_values"
    /\ ret' = <<check_null_values(arg)>>
    /\ pc' = "returned"
    /\ UNCHANGED <<arg, pipeline_vars>>

NextNull == CallCheckNullValues

SpecNull == InitNull /\ [][NextNull]_vars

\* the nulls of a column, counted in the frame
NullsIn(df, c) == Cardinality({i \in 1..len(df) : df.rows[i][c] = NaN})

\* C14: null-value detection: for a table of at least one row check_null_values
\* returns an issue entry for a column exactly when more than MAX_NULL_PERCENTAGE
\* (5) percent of the column's values are null, the entry being that percentage; a
\* column at or below the threshold is never flagged, and the call returns its dict
\* and never raises.
C14_NullDetection ==
    (pc = "returned" /\ len(arg) >= 1) =>
        /\ ~IsRaised(ret[1])
        /\ DOMAIN ret[1] \subseteq arg.columns
        /\ \A c \in arg.columns :
               /\ c \in DOMAIN ret[1] <=> 100 * NullsIn(arg, c) > 5 * len(arg)
               /\ c \in DOMAIN ret[1]
                      => ret[1][c].num * len(arg) = 100 * NullsIn(arg, c) * ret[1][c].den

\* C14 witness: of 20 rows one is null in col1, which is exactly 5 percent and not
\* flagged, and two are null in col2, which is flagged
C14_Witness ==
    /\ pc = "returned"
    /\ len(arg) = 20
    /\ NullsIn(arg, "col1") = 1
    /\ NullsIn(arg, "col2") = 2
    /\ DOMAIN ret[1] = {"col2"}

-----------------------------------------------------------------------------
(* Runs on sources in which one natural id stands in several rows.         *)

\* most rows of the three source files together in these runs
MaxDupRows == 4

\* customers: one id under two names, and a second id
DupCustomerRows ==
    {CustomerRow(Text("C1"), Text("Alice")), CustomerRow(Text("C1"), Text("Bob")),
     CustomerRow(Text("C2"), Text("Alice"))}

\* merchants: one id under two names, and a second id
DupMerchantRows ==
    {MerchantRow(Num(1)), [MerchantRow(Num(1)) EXCEPT !.merchant_name = Text("Bolt")],
     MerchantRow(Num(2))}

\* transactions of customer C1 at merchant 1, under two transaction ids
DupTransactionRows ==
    {ReferenceTransaction, [ReferenceTransaction EXCEPT !.transaction_id = Num(2)]}

\* the three source files, MaxDupRows rows in all at most
DupSourceFiles ==
    UNION {UNION {UNION {
        {[customers |-> DataFrame(DOMAIN CustomerRow(NaN, NaN), c),
          merchants |-> DataFrame(DOMAIN MerchantRow(NaN), m),
          transactions |-> DataFrame(DOMAIN ReferenceTransaction, t)] :
            c \in [1..nc -> DupCustomerRows], m \in [1..nm -> DupMerchantRows],
            t \in [1..nt -> DupTransactionRows]} :
        nt \in 0..(MaxDupRows - nc - nm)} : nm \in 0..(MaxDupRows - nc)} :
        nc \in 0..MaxDupRows}

InitDup == InitRun(DupSourceFiles)

SpecDup == InitDup /\ [][Next]_vars

\* the positions of the dimension rows that carry the natural id
RowsOf(dim, id_column, id) == {r \in 1..len(dim) : dim.rows[r][id_column] = id}

\* a natural id that several dimension rows carry: the rows have different keys, and
\* the key resolved for the id is the key of the last of them
ResolvedToLast(dim, id_column, key_column, id, key) ==
    LET R == RowsOf(dim, id_column, id)
        last == CHOOSE r \in R : \A q \in R : q <= r
    IN  Cardinality(R) >= 2 =>
            /\ \A q, r \in R : q # r => dim.rows[q][key_column] # dim.rows[r][key_column]
            /\ \A r \in R : dim.rows[r][key_column] # NaN
            /\ key # NaN
            /\ key = dim.rows[last][key_column]
            /\ \A r \in R : dim.rows[r][key_column].n <= key.n

\* C15: duplicate natural ids resolve to the last dimension row: when several rows
\* of the cleaned customer (merchant) set carry one customer_id (merchant_id), each
\* has its own surrogate key in the dimension, and every fact row that references
\* the id has the key of the last of those rows, the highest one: never null, and
\* the same key for every transaction.
C15_DuplicateIdsResolveToLast ==
    FactsBuilt =>
        \A i \in 1..len(transactions) :
            LET t == transactions.rows[i]
                f == fact_transactions.rows[i]
            IN  /\ ResolvedToLast(dimensions.dim_customers, "customer_id", "customer_key",
                                  t.customer_id, f.customer_key)
                /\ ResolvedToLast(dimensions.dim_merchants, "merchant_id", "merchant_key",
                                  t.merchant_id, f.merchant_key)
                /\ \A j \in 1..len(transactions) :
                       /\ transactions.rows[j].customer_id = t.customer_id
                              => fact_transactions.rows[j].customer_key = f.customer_key
                       /\ transactions.rows[j].merchant_id = t.merchant_id
                              => fact_transactions.rows[j].merchant_key = f.merchant_key

\* C15 witness: customer C1 stands in the first two of three dimension rows, and a
\* transaction of C1 has the key 2 of the second: not the first row's key, not the
\* highest key of the table
C15_Witness ==
    /\ FactsBuilt
    /\ len(dimensions.dim_customers) = 3
    /\ RowsOf(dimensions.dim_customers, "customer_id", Text("C1")) = {1, 2}
    /\ len(fact_transactions) = 1
    /\ fact_transactions.rows[1].customer_key = Num(2)

====
